---- MODULE Spec2Model ----
(***************************************************************************)
(* Model of bygge's `create` command (src/main.rs): the external fetch    *)
(* step, creation of the ninja file, loading of the lock file, and the    *)
(* breadth-first walk that writes one rule block per visited package.     *)
(*                                                                         *)
(* Raw crate names are sequences of one-character strings so that         *)
(* normalize_crate_name and skip_dep are computed character by character, *)
(* as str::replace and str::contains do.  Everything written to the file  *)
(* is kept as the text the format strings produce; a rule block is a      *)
(* record of the pieces build_rule writes, plus the graph node it was     *)
(* written for (pkg), which is not part of the file's text.               *)
(***************************************************************************)
EXTENDS Integers, Sequences, FiniteSets, TLC

(* ---------- bounds ---------- *)

\* largest number of dependency edges in a lock file
MaxEdges == 4
\* largest number of registry manifests that cannot be read or parsed
MaxMissing == 1

(* ---------- the packages a lock file may list ---------- *)

\* lib_path is Option<String> as a set of at most one element
Packages ==
  << [name |-> <<"a","p","p">>, version |-> "0.1.0",
      lib_path |-> {}, edition |-> "E2018"],
     [name |-> <<"a","-","b">>, version |-> "1.0.0",
      lib_path |-> {}, edition |-> "E2018"],
     [name |-> <<"a","_","b">>, version |-> "2.1.0",
      lib_path |-> {"lib/ab.rs"}, edition |-> "E2015"],
     [name |-> <<"w","i","n","a","p","i","-","u","t","i","l">>, version |-> "0.1.5",
      lib_path |-> {}, edition |-> "E2015"] >>

Nodes == 1..Len(Packages)

AllEdges == {e \in Nodes \X Nodes : e[1] # e[2]}

(* ---------- constants of the program ---------- *)

DEFAULT_RULES == [kind |-> "preamble", text |-> "# Rules generated by bygge. DO NOT MODIFY BY HAND!"]

REGISTRY_PATH == "/Users/jrediger/.cargo/registry/src/github.com-1ecc6299db9ec823"

\* default of --lockfile, the root rule's implicit dependency
LockfileArg == "Cargo.lock"

(* ---------- pure functions ---------- *)

RECURSIVE Str(_)
\* the String made of the characters of s
Str(s) == IF s = <<>> THEN "" ELSE Head(s) \o Str(Tail(s))

\* str::contains: pat occurs in s as a contiguous substring
Contains(s, pat) ==
  \E i \in 0..(Len(s) - Len(pat)) :
     \A j \in 1..Len(pat) : s[i + j] = pat[j]

normalize_crate_name(crate_name) ==
  [i \in DOMAIN crate_name |-> IF crate_name[i] = "-" THEN "_" ELSE crate_name[i]]

edition(ed) == IF ed = "E2018" THEN "2018" ELSE "2015"

skip_dep(name) ==
  \/ Contains(name, <<"w","i","n","a","p","i">>)
  \/ Contains(name, <<"r","e","d","o","x">>)

RECURSIVE SelectDeps(_)
\* the `continue` of both loops of build_rule: dependencies that are kept
SelectDeps(dependencies) ==
  IF dependencies = <<>> THEN <<>>
  ELSE IF skip_dep(Head(dependencies))
       THEN SelectDeps(Tail(dependencies))
       ELSE <<Head(dependencies)>> \o SelectDeps(Tail(dependencies))

\* ImplicitArchives without the skip_dep test of the first loop
ImplicitArchivesNoSkip(dependencies) ==
  [i \in DOMAIN dependencies |->
     "build/deps/lib" \o Str(normalize_crate_name(dependencies[i])) \o ".rlib"]

\* first loop of build_rule: one archive path per kept dependency
ImplicitArchives(dependencies) ==
  [i \in DOMAIN SelectDeps(dependencies) |->
     "build/deps/lib" \o Str(normalize_crate_name(SelectDeps(dependencies)[i])) \o ".rlib"]

\* ExternArgs naming the archive by the raw crate name
ExternArgsRaw(dependencies) ==
  [i \in DOMAIN SelectDeps(dependencies) |->
     [alias |-> Str(normalize_crate_name(SelectDeps(dependencies)[i])),
      path  |-> "build/deps/lib" \o Str(SelectDeps(dependencies)[i]) \o ".rlib"]]

\* second loop of build_rule: one --extern NAME=PATH per kept dependency
ExternArgs(dependencies) ==
  [i \in DOMAIN SelectDeps(dependencies) |->
     [alias |-> Str(normalize_crate_name(SelectDeps(dependencies)[i])),
      path  |-> "build/deps/lib" \o Str(normalize_crate_name(SelectDeps(dependencies)[i])) \o ".rlib"]]

\* the hard-coded libc feature flags
ExtraCfg(norm_pkg_name) ==
  IF norm_pkg_name = "libc" THEN <<"--cfg feature=default ...">> ELSE <<>>

\* the block build_rule writes; target is the list of output paths
build_rule(node, pkg_name, target, deps, implicit_deps, outdir, crate_type, ed, emit, dependencies) ==
  [kind       |-> "rule",
   pkg        |-> node,
   target     |-> target,
   deps       |-> deps,
   implicit   |-> implicit_deps \o ImplicitArchives(dependencies),
   name       |-> Str(normalize_crate_name(pkg_name)),
   crate_type |-> crate_type,
   edition    |-> ed,
   cfg        |-> ExtraCfg(Str(normalize_crate_name(pkg_name))),
   externs    |-> ExternArgs(dependencies),
   outdir     |-> outdir,
   emit       |-> emit,
   depfile    |-> outdir \o "/" \o Str(normalize_crate_name(pkg_name)) \o ".d"]

\* RootTarget placing the binary in the dependency directory
RootTargetInDeps(norm_pkg_name) == <<"build/deps/" \o Str(norm_pkg_name)>>

\* format!("build/{}", norm_pkg_name)
RootTarget(norm_pkg_name) == <<"build/" \o Str(norm_pkg_name)>>

\* DepTarget declaring only the metadata file
DepTargetNoRlib(norm_pkg_name) == << "build/deps/lib" \o Str(norm_pkg_name) \o ".rmeta" >>

\* format!("build/deps/lib{pkg}.rlib build/deps/lib{pkg}.rmeta", pkg = norm_pkg_name)
DepTarget(norm_pkg_name) ==
  << "build/deps/lib" \o Str(norm_pkg_name) \o ".rlib",
     "build/deps/lib" \o Str(norm_pkg_name) \o ".rmeta" >>

\* writeln!(rules, "default build/{}", norm_pkg_name)
DefaultLine(norm_pkg_name) == [kind |-> "default", path |-> "build/" \o Str(norm_pkg_name)]

\* crate_path of a registry package
CratePath(p) == REGISTRY_PATH \o "/" \o Str(p.name) \o "-" \o p.version

\* manifest.lib.and_then(|lib| lib.path).unwrap_or_else(|| "src/lib.rs")
Entry(p) == IF p.lib_path = {} THEN "src/lib.rs" ELSE CHOOSE e \in p.lib_path : TRUE

(* ---------- state ---------- *)

VARIABLES
  edges,       \* the lock file: <<a, b>> when package a lists b as a dependency
  root_idx,    \* the node of the package named in the manifest
  missing,     \* registry packages whose Cargo.toml cannot be opened or parsed
  old_file,    \* the ninja file before the run
  ninja_file,  \* the ninja file on disk: [exists, lines]
  pc,          \* position in create
  err,         \* why create returned an error
  cmdlog,      \* the command lines `command` has run
  fetch,       \* outcome of the fetch step
  stack,       \* Bfs.stack
  discovered,  \* Bfs.discovered
  visited      \* the nodes bfs.next has returned, in order

vars == <<edges, root_idx, missing, old_file, ninja_file, pc, err, cmdlog,
          fetch, stack, discovered, visited>>

inputs == <<edges, root_idx, missing, old_file>>

RECURSIVE SortedSeq(_)
\* the elements of a set of nodes in increasing order
SortedSeq(S) ==
  IF S = {} THEN <<>>
  ELSE LET m == CHOOSE x \in S : \A y \in S : x <= y
       IN  <<m>> \o SortedSeq(S \ {m})

\* node.dependencies: the names of the direct dependencies, in lock-file order
Dependencies(n) ==
  LET ds == SortedSeq({m \in Nodes : <<n, m>> \in edges})
  IN  [i \in DOMAIN ds |-> Packages[ds[i]].name]

\* the orders in which a set of nodes can be listed
Orders(S) ==
  {s \in [1..Cardinality(S) -> S] : \A i, j \in DOMAIN s : i # j => s[i] # s[j]}

\* Undiscovered that does not walk past a skipped package
UndiscoveredNotPastSkipped(nx, disc) ==
  IF skip_dep(Packages[nx].name) THEN {}
  ELSE {m \in Nodes : <<nx, m>> \in edges /\ m \notin disc}

\* the successors of nx that bfs.next has not discovered yet
Undiscovered(nx, disc) == {m \in Nodes : <<nx, m>> \in edges /\ m \notin disc}

\* Enqueue that pushes at the front (a depth-first walk)
EnqueueFront(queue, new) == new \o queue

\* VecDeque::push_back of the newly discovered successors
Enqueue(queue, new) == queue \o new

StaleFile == [exists |-> TRUE, lines |-> <<[kind |-> "stale", text |-> "previous build.ninja"]>>]
NoFile    == [exists |-> FALSE, lines |-> <<>>]

Init ==
  /\ edges \in {E \in SUBSET AllEdges : Cardinality(E) <= MaxEdges}
  /\ root_idx \in Nodes
  /\ missing \in {M \in SUBSET Nodes : Cardinality(M) <= MaxMissing}
  /\ old_file \in {NoFile, StaleFile}
  /\ ninja_file = old_file
  /\ pc = "fetch"
  /\ err = "none"
  /\ cmdlog = <<>>
  /\ fetch = "not_run"
  /\ stack = <<>>
  /\ discovered = {}
  /\ visited = <<>>

(* ---------- create ---------- *)

\* command(&["cargo", "fetch", ...])?: the process runs and exits with 0
FetchOk ==
  /\ pc = "fetch"
  /\ cmdlog' = Append(cmdlog, "cargo fetch")
  /\ fetch' = "ok"
  /\ pc' = "create_file"
  /\ UNCHANGED <<inputs, ninja_file, err, stack, discovered, visited>>

\* FetchFail whose error is dropped: create goes on to write the file
FetchFailIgnored ==
  /\ pc = "fetch"
  /\ cmdlog' = Append(cmdlog, "cargo fetch")
  /\ \E outcome \in {"spawn_failed", "nonzero"} : fetch' = outcome
  /\ pc' = "create_file"
  /\ UNCHANGED <<inputs, ninja_file, err, stack, discovered, visited>>

\* command(...)?: the process cannot be spawned, or exits non-zero
FetchFail ==
  /\ pc = "fetch"
  /\ cmdlog' = Append(cmdlog, "cargo fetch")
  /\ \E outcome \in {"spawn_failed", "nonzero"} :
        /\ fetch' = outcome
        /\ err' = IF outcome = "spawn_failed" THEN "failed to run cargo" ELSE "cargo failed"
  /\ pc' = "failed"
  /\ UNCHANGED <<inputs, ninja_file, stack, discovered, visited>>

\* File::create(&args.ninja_file)? and writeln!(rules, "{}", DEFAULT_RULES)?
CreateFile ==
  /\ pc = "create_file"
  /\ ninja_file' = [exists |-> TRUE, lines |-> <<DEFAULT_RULES>>]
  /\ pc' = "load"
  /\ UNCHANGED <<inputs, err, cmdlog, fetch, stack, discovered, visited>>

\* File::create fails (e.g. the directory is not writable)
CreateFileFail ==
  /\ pc = "create_file"
  /\ err' = "io"
  /\ pc' = "failed"
  /\ UNCHANGED <<inputs, ninja_file, cmdlog, fetch, stack, discovered, visited>>

\* Lockfile::load, Manifest::from_path, dependency_tree, Bfs::new
Load ==
  /\ pc = "load"
  /\ stack' = <<root_idx>>
  /\ discovered' = {root_idx}
  /\ pc' = "bfs"
  /\ UNCHANGED <<inputs, ninja_file, err, cmdlog, fetch, visited>>

\* the lock file or the manifest cannot be loaded
LoadFail ==
  /\ pc = "load"
  /\ err' = "load"
  /\ pc' = "failed"
  /\ UNCHANGED <<inputs, ninja_file, cmdlog, fetch, stack, discovered, visited>>

\* bfs.next(&graph): pop the front, discover and push its new successors
BfsNext(nx) ==
  /\ pc = "bfs"
  /\ stack # <<>>
  /\ nx = Head(stack)
  /\ \E new \in Orders(Undiscovered(nx, discovered)) :
        stack' = Enqueue(Tail(stack), new)
  /\ discovered' = discovered \cup Undiscovered(nx, discovered)
  /\ visited' = Append(visited, nx)

\* RootBlock with the default line written before the rule
RootBlockDefaultFirst(nx) ==
  << DefaultLine(normalize_crate_name(Packages[nx].name)),
     build_rule(nx, Packages[nx].name,
                RootTarget(normalize_crate_name(Packages[nx].name)),
                <<"src/main.rs">>, <<LockfileArg>>, "build", "bin", "2018",
                "dep-info,link", Dependencies(nx)) >>

\* what the loop body writes for the root: its rule, then the default line
RootBlock(nx) ==
  << build_rule(nx, Packages[nx].name,
                RootTarget(normalize_crate_name(Packages[nx].name)),
                <<"src/main.rs">>, <<LockfileArg>>, "build", "bin", "2018",
                "dep-info,link", Dependencies(nx)),
     DefaultLine(normalize_crate_name(Packages[nx].name)) >>

\* what the loop body writes for a dependency whose manifest was read
DepBlock(nx) ==
  << build_rule(nx, Packages[nx].name,
                DepTarget(normalize_crate_name(Packages[nx].name)),
                <<CratePath(Packages[nx]) \o "/" \o Entry(Packages[nx])>>, <<>>,
                "build/deps", "lib", edition(Packages[nx].edition),
                "dep-info,metadata,link", Dependencies(nx)) >>

\* loop body, nx == root_idx
VisitRoot ==
  \E nx \in Nodes :
    /\ BfsNext(nx)
    /\ nx = root_idx
    /\ ninja_file' = [ninja_file EXCEPT !.lines = @ \o RootBlock(nx)]
    /\ UNCHANGED <<inputs, pc, err, cmdlog, fetch>>

\* loop body, skip_dep(pkg_name): continue
VisitSkipped ==
  \E nx \in Nodes :
    /\ BfsNext(nx)
    /\ nx # root_idx
    /\ skip_dep(Packages[nx].name)
    /\ UNCHANGED <<inputs, ninja_file, pc, err, cmdlog, fetch>>

\* loop body, a dependency whose Cargo.toml is read and parsed
VisitDep ==
  \E nx \in Nodes :
    /\ BfsNext(nx)
    /\ nx # root_idx
    /\ ~skip_dep(Packages[nx].name)
    /\ nx \notin missing
    /\ ninja_file' = [ninja_file EXCEPT !.lines = @ \o DepBlock(nx)]
    /\ UNCHANGED <<inputs, pc, err, cmdlog, fetch>>

\* VisitDepFail that swallows the error and goes on with the next node
VisitDepFailContinue ==
  \E nx \in Nodes :
    /\ BfsNext(nx)
    /\ nx # root_idx
    /\ ~skip_dep(Packages[nx].name)
    /\ nx \in missing
    /\ UNCHANGED <<inputs, ninja_file, pc, err, cmdlog, fetch>>

\* loop body, File::open / read_to_end / Manifest::from_slice returns Err
VisitDepFail ==
  \E nx \in Nodes :
    /\ BfsNext(nx)
    /\ nx # root_idx
    /\ ~skip_dep(Packages[nx].name)
    /\ nx \in missing
    /\ err' = "manifest"
    /\ pc' = "failed"
    /\ UNCHANGED <<inputs, ninja_file, cmdlog, fetch>>

\* bfs.next returns None: Ok(())
Finish ==
  /\ pc = "bfs"
  /\ stack = <<>>
  /\ pc' = "done"
  /\ UNCHANGED <<inputs, ninja_file, err, cmdlog, fetch, stack, discovered, visited>>

Next ==
  \/ FetchOk
  \/ FetchFail
  \/ CreateFile
  \/ CreateFileFail
  \/ Load
  \/ LoadFail
  \/ VisitRoot
  \/ VisitSkipped
  \/ VisitDep
  \/ VisitDepFail
  \/ Finish

Spec == Init /\ [][Next]_vars

(* ---------- vocabulary of the properties ---------- *)

Lines == ninja_file.lines

\* the lines that are rule blocks, and those written for package n
RuleLines == {i \in DOMAIN Lines : Lines[i].kind = "rule"}
RuleIdx(n) == {i \in RuleLines : Lines[i].pkg = n}
DefaultIdx == {i \in DOMAIN Lines : Lines[i].kind = "default"}

Succ(S) == {m \in Nodes : \E n \in S : <<n, m>> \in edges}

RECURSIVE Reach(_)
\* the nodes reachable from S along dependency edges, S included
Reach(S) == IF Succ(S) \subseteq S THEN S ELSE Reach(S \cup Succ(S))

Reachable == Reach({root_idx})

Acyclic == \A n \in Nodes : n \notin Reach(Succ({n}))

RECURSIVE Dist(_, _, _)
\* length of the shortest path from the set S (at distance d) to a reachable n
Dist(S, d, n) == IF n \in S THEN d ELSE Dist(S \cup Succ(S), d + 1, n)

Depth(n) == Dist({root_idx}, 0, n)

Skipped(n) == skip_dep(Packages[n].name)

\* build/deps/lib<normalized name>.rlib
ArchivePath(n) == "build/deps/lib" \o Str(normalize_crate_name(Packages[n].name)) \o ".rlib"

Range(s) == {s[i] : i \in DOMAIN s}

\* the archive paths a rule block mentions
Refs(r) == (Range(r.implicit) \ {LockfileArg}) \cup {r.externs[k].path : k \in DOMAIN r.externs}

\* the direct dependencies of p that build_rule keeps, in lock-file order
KeptDeps(p) == SortedSeq({m \in Nodes : <<p, m>> \in edges /\ ~Skipped(m)})

RECURSIVE Filter(_, _)
\* the elements of the sequence s that are in the set S, in order
Filter(s, S) ==
  IF s = <<>> THEN <<>>
  ELSE IF Head(s) \in S THEN <<Head(s)>> \o Filter(Tail(s), S) ELSE Filter(Tail(s), S)

Front(s) == SubSeq(s, 1, Len(s) - 1)

\* this run has created (truncated) the ninja file
Created == ninja_file # old_file

\* a reachable, non-skipped dependency whose registry manifest is missing
BadDeps == {n \in Reachable \ {root_idx} : ~Skipped(n) /\ n \in missing}

(* ---------- C1 ---------- *)

\* C1: after a successful run, every package reachable from the root whose
\* name the skip set does not match has exactly one rule block, also when it
\* is reached along several paths or only through skipped packages.
C1_ExactlyOneRule ==
  pc = "done" =>
    \A n \in Reachable : ~Skipped(n) => Cardinality(RuleIdx(n)) = 1

\* a finished run on a graph holding a package with two visited dependents
\* and a package all of whose dependents are skipped
C1_Witness ==
  /\ pc = "done"
  /\ \E n \in Reachable \ {root_idx} :
        /\ ~Skipped(n)
        /\ Cardinality({m \in Reachable : <<m, n>> \in edges}) >= 2
        /\ Cardinality(RuleIdx(n)) = 1
  /\ \E k \in Reachable \ {root_idx} :
        /\ ~Skipped(k)
        /\ \A m \in Nodes : <<m, k>> \in edges => Skipped(m) /\ m # root_idx
        /\ Cardinality(RuleIdx(k)) = 1

(* ---------- C2 ---------- *)

\* C2 as stated: no package of the graph whose name the skip set matches has
\* a rule block, and no rule block mentions its archive path.
C2_Original ==
  \A n \in Reachable :
    Skipped(n) =>
      /\ RuleIdx(n) = {}
      /\ \A i \in RuleLines : ArchivePath(n) \notin Refs(Lines[i])

\* C2 amended: no package other than the root whose name the skip set matches
\* has a rule block, and no rule block mentions the archive path of any
\* package the skip set matches (the root included).
C2_NoRuleForSkippedDep ==
  \A n \in Reachable :
    Skipped(n) =>
      /\ n # root_idx => RuleIdx(n) = {}
      /\ \A i \in RuleLines : ArchivePath(n) \notin Refs(Lines[i])

\* a skipped dependency has been dequeued and one of its dependents has a rule
C2_Witness ==
  \E n \in Nodes \ {root_idx} :
    /\ Skipped(n)
    /\ n \in Range(visited)
    /\ \E i \in RuleLines : <<Lines[i].pkg, n>> \in edges

(* ---------- C3 ---------- *)

\* C3: a completed run leaves exactly one default declaration; the path it
\* names is build/<normalized root name>, which is an output of the root's
\* rule block and of no other.
C3_OneDefaultForRoot ==
  pc = "done" =>
    /\ Cardinality(DefaultIdx) = 1
    /\ \A d \in DefaultIdx :
          /\ Lines[d].path = "build/" \o Str(normalize_crate_name(Packages[root_idx].name))
          /\ {i \in RuleLines : Lines[d].path \in Range(Lines[i].target)} = RuleIdx(root_idx)
          /\ Cardinality(RuleIdx(root_idx)) = 1

\* a completed run that wrote the rule of a hyphenated root and another rule
C3_Witness ==
  /\ pc = "done"
  /\ Cardinality(RuleLines) >= 2
  /\ Contains(Packages[root_idx].name, <<"-">>)

(* ---------- C4 ---------- *)

\* C4 as stated: in a completed run the file is the preamble once, then the
\* rule blocks, then the default line, which is the final line.
C4_Original ==
  pc = "done" =>
    /\ Lines[1] = DEFAULT_RULES
    /\ Lines[Len(Lines)].kind = "default"
    /\ \A i \in 2..(Len(Lines) - 1) : Lines[i].kind = "rule"

\* C4 amended: the file is the preamble once, then the root's rule block,
\* then the default line, then one rule block per other emitted package; the
\* default line directly follows the root's rule block and is the final line
\* only when no other package is emitted.
C4_DefaultAfterRootRule ==
  Created =>
    /\ Lines[1] = DEFAULT_RULES
    /\ \A i \in 2..Len(Lines) : Lines[i].kind # "preamble"
    /\ \A i \in DefaultIdx : i = 3
    /\ Len(Lines) >= 2 => Lines[2].kind = "rule" /\ Lines[2].pkg = root_idx
    /\ Len(Lines) >= 2 => Lines[3].kind = "default"
    /\ \A i \in 4..Len(Lines) : Lines[i].kind = "rule" /\ Lines[i].pkg # root_idx
    /\ pc = "done" => Len(Lines) >= 3

\* a completed run with a rule block written after the default line
C4_Witness ==
  /\ pc = "done"
  /\ Len(Lines) >= 4
  /\ Lines[3].kind = "default"
  /\ Lines[4].kind = "rule"

(* ---------- C5 ---------- *)

\* C5 as stated: when the manifest of a reachable non-skipped dependency is
\* missing, no state of the run has a default line in the file.
C5_Original ==
  BadDeps # {} => (Created => DefaultIdx = {})

\* C5 amended: when the manifest of a reachable non-skipped dependency is
\* missing, create never completes and aborts with an error at the first such
\* package it dequeues; by then the default line has been written (right
\* after the root's rule block) and stays in the truncated file.
C5_AbortsWithDefaultWritten ==
  BadDeps # {} =>
    /\ pc # "done"
    /\ (pc = "bfs" /\ visited # <<>>) => Range(visited) \cap BadDeps = {}
    /\ err = "manifest" =>
          /\ pc = "failed"
          /\ visited[Len(visited)] \in BadDeps
          /\ Range(Front(visited)) \cap BadDeps = {}
          /\ Cardinality(DefaultIdx) = 1
          /\ RuleIdx(visited[Len(visited)]) = {}

\* the run has aborted on the missing manifest of a dependency
C5_Witness ==
  /\ BadDeps # {}
  /\ pc = "failed"
  /\ err = "manifest"
  /\ DefaultIdx # {}

(* ---------- C6 ---------- *)

\* C6: the packages that receive a rule have pairwise distinct normalized
\* names, so no two rule blocks declare the same output path or the same
\* depfile path, for any graph.
C6_DistinctNormalizedNames ==
  \A i, j \in RuleLines :
    i # j =>
      /\ Lines[i].name # Lines[j].name
      /\ Range(Lines[i].target) \cap Range(Lines[j].target) = {}
      /\ Lines[i].depfile # Lines[j].depfile

(* ---------- C7 ---------- *)

\* C7: for every dependency D a rule block keeps, the --extern pair is
\* N=build/deps/libN.rlib, the implicit inputs hold that same path, and N is
\* the name variable and the output stem of D's own rule block.
C7_NormalizationConsistent ==
  \A i \in RuleLines :
    LET r == Lines[i]
        kept == KeptDeps(r.pkg)
    IN  /\ Len(r.externs) = Len(kept)
        /\ \A k \in DOMAIN kept :
              LET e == r.externs[k]
              IN  /\ e.path = "build/deps/lib" \o e.alias \o ".rlib"
                  /\ e.path \in Range(r.implicit)
                  /\ \A j \in RuleIdx(kept[k]) :
                        /\ Lines[j].name = e.alias
                        /\ Lines[j].target =
                             IF kept[k] = root_idx
                             THEN <<"build/" \o e.alias>>
                             ELSE <<"build/deps/lib" \o e.alias \o ".rlib",
                                    "build/deps/lib" \o e.alias \o ".rmeta">>

\* a rule block links a hyphenated dependency whose own rule block is written
C7_Witness ==
  \E i \in RuleLines :
    \E d \in Range(KeptDeps(Lines[i].pkg)) :
      /\ d # root_idx
      /\ Contains(Packages[d].name, <<"-">>)
      /\ RuleIdx(d) # {}

(* ---------- C8 ---------- *)

\* C8: the fetch step runs first; when it cannot be spawned or exits
\* non-zero, create has failed after that single attempt and the ninja file
\* is as it was before the run; the file is written only after fetch succeeded.
C8_FetchFailureLeavesFile ==
  /\ fetch \in {"spawn_failed", "nonzero"} =>
        /\ pc = "failed"
        /\ ninja_file = old_file
        /\ cmdlog = <<"cargo fetch">>
  /\ Created => fetch = "ok"
  /\ Len(cmdlog) <= 1

\* the fetch step failed while an older ninja file was on disk
C8_Witness ==
  /\ fetch \in {"spawn_failed", "nonzero"}
  /\ pc = "failed"
  /\ old_file.exists
  /\ ninja_file.lines # <<>>

(* ---------- C9 ---------- *)

\* the packages dequeued before the failing one
Before == Front(visited)

\* C9 as stated: when the manifest of the k-th dequeued package fails, the
\* file is the preamble followed by exactly the rule blocks of the
\* non-skipped packages dequeued before it, in breadth-first order.
C9_Original ==
  (pc = "failed" /\ err = "manifest") =>
    LET E == Filter(Before, {n \in Nodes : n = root_idx \/ ~Skipped(n)})
    IN  /\ Lines[1] = DEFAULT_RULES
        /\ Len(Lines) = 1 + Len(E)
        /\ \A i \in DOMAIN E : Lines[1 + i].kind = "rule" /\ Lines[1 + i].pkg = E[i]

\* C9 amended: when the manifest of the k-th dequeued package fails, the
\* file is the preamble, the root's rule block, the default line, and then
\* exactly the rule blocks of the non-skipped dependencies dequeued before
\* it; packages are dequeued in breadth-first order starting with the root,
\* and neither the failing package nor anything still queued has a rule.
C9_TruncatedPlan ==
  (pc = "failed" /\ err = "manifest") =>
    LET E == Filter(Before, {n \in Nodes : n # root_idx /\ ~Skipped(n)})
    IN  /\ Lines[1] = DEFAULT_RULES
        /\ visited[1] = root_idx
        /\ Lines[2].kind = "rule" /\ Lines[2].pkg = root_idx
        /\ Lines[3].kind = "default"
        /\ Len(Lines) = 3 + Len(E)
        /\ \A i \in DOMAIN E : Lines[3 + i].kind = "rule" /\ Lines[3 + i].pkg = E[i]
        /\ \A i, j \in DOMAIN visited : i < j => Depth(visited[i]) <= Depth(visited[j])
        /\ \A i, j \in DOMAIN visited : i # j => visited[i] # visited[j]
        /\ \A n \in {visited[Len(visited)]} \cup Range(stack) : RuleIdx(n) = {}

\* the failing package is at least the fourth one dequeued and the rule
\* blocks of two dependencies dequeued before it are in the file
C9_Witness ==
  /\ pc = "failed"
  /\ err = "manifest"
  /\ Len(Lines) >= 5
  /\ Len(visited) >= 4

(* ---------- C10 ---------- *)

\* C10: after a successful run on an acyclic graph every archive path in the
\* implicit inputs or --extern arguments of a rule block is an output of
\* some rule block: every kept dependency of an emitted package has a rule.
C10_NoDanglingArchive ==
  (pc = "done" /\ Acyclic) =>
    \A i \in RuleLines :
      /\ \A p \in Refs(Lines[i]) : \E j \in RuleLines : p \in Range(Lines[j].target)
      /\ \A d \in Range(KeptDeps(Lines[i].pkg)) :
            /\ RuleIdx(d) # {}
            /\ ArchivePath(d) \in Refs(Lines[i])

\* a successful run on an acyclic graph where a rule block written for a
\* package reached only through a skipped package links a dependency
C10_Witness ==
  /\ pc = "done"
  /\ Acyclic
  /\ \E i \in RuleLines :
        /\ Lines[i].pkg # root_idx
        /\ \A m \in Nodes : <<m, Lines[i].pkg>> \in edges => Skipped(m) /\ m # root_idx
        /\ Lines[i].externs # <<>>
  /\ Lines[2].externs # <<>>

====
